---- MODULE Spec2Model ----
(***************************************************************************)
(* Model of one remediation run of create_pr (app/agents/github_pr.py)     *)
(* against a repository checkout, together with the git tools of           *)
(* app/mcp/github_server.py that it invokes.                               *)
(*                                                                         *)
(* Paths are sequences of path components relative to repo_path (the       *)
(* checkout directory is the empty sequence).  File contents are sequences *)
(* of text fragments ("tokens"); the length of a content is its number of  *)
(* fragments, and substring tests of the code are membership tests on the  *)
(* fragments.                                                              *)
(***************************************************************************)
EXTENDS Integers, Sequences, FiniteSets, TLC

\* ---------------------------------------------------------------- bounds
\* Largest number of entries of the `files` mapping returned by generation.
MaxChange == 2

\* Largest number of module blocks of a root file whose sources are resolved.
MaxModuleBlocks == 2

\* Largest number of candidate files of freely chosen sizes.
MaxBigFiles == 3

\* Largest number of module blocks of a validated file.
MaxModules == 2

\* Largest number of requests the service handles at a time.
MaxConcurrent == 3

\* Largest number of runs, one after the other, on one checkout.
MaxRuns == 2

\* ------------------------------------------------------------ file names
\* Every file or directory name of the modelled checkouts, in lexical order.
NameOrder ==
    <<"README.md", "app.tf", "db.tf", "env", "kms", "main.tf", "modules", "s3", "shared",
      "terragrunt.hcl", "v1">>

\* f.endswith(".tf") or f.endswith(".tfvars")
IsDefinitionName(f) == f \in {"app.tf", "db.tf", "main.tf", "terraform.tf", "providers.tf"}

\* A scan that knows no manifest file name.
IsManifestNameNone(f) == FALSE

\* A scan that takes every file for a manifest.
IsManifestNameAny(f) == TRUE

\* f == "terragrunt.hcl" or f.endswith(".hcl")
IsManifestName(f) == f \in {"terragrunt.hcl"}

\* ------------------------------------------------------------ text tokens
\* The module blocks of the modelled files, one token per block: each holds
\* one occurrence of the text `module "` and, as its first attribute, one
\* source = "..." assignment.
ModuleTokens ==
    {"module_local", "module_registry", "module_kms_v1", "module_plain", "module_spaced",
     "module_parent", "module_root", "module_nested", "module_path_module", "module_v1",
     "module_here"}

\* The text between the quotes of the source assignment of a module block
\* (group "source" of source_re), as its sequence of text fragments.
SourceOf(tok) ==
    CASE tok = "module_local" -> <<".", "/", "modules", "/", "s3">>
      [] tok = "module_path_module" -> <<"${path", ".", "module}", "/", "modules", "/", "s3">>
      [] tok = "module_registry" -> <<"terraform-aws-modules", "/", "s3-bucket", "/", "aws">>
      [] tok = "module_kms_v1" -> <<"${path", ".", "module}", "/", "modules", "/", "kms", "/", "v1">>
      [] tok = "module_plain" -> <<"modules", "/", "kms">>
      [] tok = "module_v1" -> <<".", "/", "modules", "/", "kms", "/", "v1">>
      [] tok = "module_here" -> <<".", "/">>
      [] tok = "module_spaced" -> <<" ", ".", "/", "modules", "/", "s3", " ">>
      [] tok = "module_parent" -> <<".", ".", "/", "shared">>
      [] tok = "module_root" -> <<"${path", ".", "root}", "/", "modules", "/", "kms">>
      [] tok = "module_nested" -> <<"${path", "${path", ".", "root}", "module}", "/", "modules", "/", "s3">>

\* The resource types whose marker (resource_type or "aws_" + resource_type)
\* occurs in the lower-cased text of a token (the source of a module block
\* is part of its text).
Mentions(tok) ==
    IF tok \in {"aws_s3_bucket", "module_local", "module_registry", "module_spaced", "module_nested",
               "module_path_module"}
    THEN {"s3"}
    ELSE IF tok \in {"module_kms_v1", "module_plain", "module_root", "module_v1"} THEN {"kms"}
    ELSE {}

Has(content, tok) == \E i \in DOMAIN content : content[i] = tok

\* A run of filler characters is written as tokens that stand for 100000,
\* 10000, 1000, 100 and 10 characters and for one character; every other
\* token counts as one character.
FillerWidths == <<100000, 10000, 1000, 100, 10, 1>>

FillerTokens == <<"x100000", "x10000", "x1000", "x100", "x10", "x">>

Width(tok) ==
    IF \E i \in DOMAIN FillerTokens : FillerTokens[i] = tok
    THEN FillerWidths[CHOOSE i \in DOMAIN FillerTokens : FillerTokens[i] = tok]
    ELSE 1

\* len(content)
RECURSIVE Chars(_)
Chars(content) == IF content = <<>> THEN 0 ELSE Width(Head(content)) + Chars(Tail(content))

\* The run of n filler characters.
RECURSIVE Filler(_)
Filler(n) ==
    IF n <= 0 THEN <<>>
    ELSE LET i == CHOOSE j \in DOMAIN FillerWidths :
                      /\ FillerWidths[j] <= n
                      /\ \A k \in DOMAIN FillerWidths : FillerWidths[k] <= n => j <= k
         IN  <<FillerTokens[i]>> \o Filler(n - FillerWidths[i])

\* content.count('module "')
ModuleCount(content) == Cardinality({i \in DOMAIN content : content[i] \in ModuleTokens})

\* ------------------------------------------------------------ sample text
TfMain == <<"terraform {", "module_local", "module_registry", "variable \"">>
TfMainKms == <<"terraform {", "module_plain", "variable \"">>
TfMainFixed == <<"terraform {", "module_local", "module_registry", "variable \"", "resource \"">>
TfStub == <<"resource \"", "bucket-a">>
TfRelated == <<"resource \"", "aws_s3_bucket">>
TfPlain == <<"resource \"">>
HclRelated == <<"aws_s3_bucket">>
ReadmeText == <<"bucket-a", "aws_s3_bucket">>

\* ------------------------------------------------------------------ paths
Dirname(p) == SubSeq(p, 1, Len(p) - 1)

Basename(p) == p[Len(p)]

IsPrefix(d, p) == Len(d) <= Len(p) /\ SubSeq(p, 1, Len(d)) = d

\* os.path.isdir on a checkout: git keeps no empty directory, so a directory
\* exists when some file lies below it; repo_path itself always exists.
IsDir(d, fs) == d = <<>> \/ \E p \in DOMAIN fs : Len(p) > Len(d) /\ IsPrefix(d, p)

\* os.path.normpath(os.path.join(repo_path, rel)): "." segments vanish and a
\* ".." segment removes the segment before it.  A path that climbs above
\* repo_path keeps its leading ".." segments: it names a sibling of the
\* checkout inside WORKDIR.
RECURSIVE NormFrom(_, _)
NormFrom(acc, rest) ==
    IF rest = <<>> THEN acc
    ELSE IF Head(rest) = "." THEN NormFrom(acc, Tail(rest))
    ELSE IF Head(rest) = ".." THEN
        NormFrom(IF acc = <<>> \/ acc[Len(acc)] = ".."
                 THEN Append(acc, "..")
                 ELSE SubSeq(acc, 1, Len(acc) - 1), Tail(rest))
    ELSE NormFrom(Append(acc, Head(rest)), Tail(rest))

NormPath(rel) == NormFrom(<<>>, rel)

\* ---------------------------------------------------------------- os.walk
Reverse(s) == [i \in 1..Len(s) |-> s[Len(s) + 1 - i]]

\* The directory listing order of the file system: lexical, or its reverse.
Listing(rev) == IF rev THEN Reverse(NameOrder) ELSE NameOrder

\* The files below `dir`, top-down: the files of a directory come before the
\* files of its sub-directories.
RECURSIVE Walk(_, _, _)
RECURSIVE WalkDirs(_, _, _, _)
Walk(dir, fs, rev) ==
    LET isFile(n) == Append(dir, n) \in DOMAIN fs
        isSub(n) == Append(dir, n) \notin DOMAIN fs /\ IsDir(Append(dir, n), fs)
        files == SelectSeq(Listing(rev), isFile)
        dirs == SelectSeq(Listing(rev), isSub)
    IN  [i \in 1..Len(files) |-> Append(dir, files[i])] \o WalkDirs(dir, dirs, fs, rev)

WalkDirs(dir, dirs, fs, rev) ==
    IF dirs = <<>> THEN <<>>
    ELSE Walk(Append(dir, Head(dirs)), fs, rev) \o WalkDirs(dir, Tail(dirs), fs, rev)

\* The *.tf / *.tfvars files below `dir`, in walk order.
DefinitionFilesUnder(dir, fs, rev) ==
    LET isDef(p) == IsDefinitionName(Basename(p))
    IN  SelectSeq(Walk(dir, fs, rev), isDef)

ManifestFilesUnder(dir, fs, rev) ==
    LET isMan(p) == IsManifestName(Basename(p))
    IN  SelectSeq(Walk(dir, fs, rev), isMan)

Range(s) == {s[i] : i \in DOMAIN s}

\* ------------------------------------------------------------ the inputs
Absent == <<"<absent>">>

\* The contents a file of the remote repository may have.
ContentOptions(p) ==
    IF p = <<"main.tf">> THEN {Absent, TfMain, TfMainKms}
    ELSE IF p = <<"terragrunt.hcl">> THEN {Absent, HclRelated}
    ELSE IF p = <<"env", "app.tf">> THEN {Absent, TfStub, TfRelated}
    ELSE IF p = <<"README.md">> THEN {Absent, ReadmeText}
    ELSE {Absent, TfPlain}

Universe ==
    {<<"README.md">>, <<"main.tf">>, <<"terragrunt.hcl">>, <<"env", "app.tf">>, <<"env", "db.tf">>,
     <<"modules", "s3", "main.tf">>, <<"modules", "kms", "main.tf">>}

AllContents == {Absent, TfMain, TfMainKms, HclRelated, TfStub, TfRelated, TfPlain, ReadmeText}

\* The trees a clone can produce.
Layouts ==
    LET choices == {c \in [Universe -> AllContents] : \A p \in Universe : c[p] \in ContentOptions(p)}
    IN  {[p \in {q \in Universe : c[q] # Absent} |-> c[p]] : c \in choices}

\* list_supported_resources(): the keys of PROMPT_TEMPLATES.
ResourceTypes == {"s3"}

\* What _extract_affected_resources can return.
AffectedOptions == {<<>>, <<"bucket-a">>}

\* -------------------------------------------------------- module resolver
StartsWith(text, prefix) == Len(prefix) <= Len(text) /\ SubSeq(text, 1, Len(prefix)) = prefix

\* str.replace(old, new): the occurrences of `old`, left to right and not
\* overlapping, become `new`.
RECURSIVE Replace(_, _, _)
Replace(text, old, new) ==
    IF Len(text) < Len(old) THEN text
    ELSE IF StartsWith(text, old)
         THEN new \o Replace(SubSeq(text, Len(old) + 1, Len(text)), old, new)
         ELSE <<Head(text)>> \o Replace(Tail(text), old, new)

\* str.strip(): leading and trailing white space removed.
RECURSIVE Strip(_)
Strip(text) ==
    IF text = <<>> THEN text
    ELSE IF Head(text) = " " THEN Strip(Tail(text))
    ELSE IF text[Len(text)] = " " THEN Strip(SubSeq(text, 1, Len(text) - 1))
    ELSE text

PathModuleToken == <<"${path", ".", "module}">>

PathRootToken == <<"${path", ".", "root}">>

\* source.replace("${path.module}", ".").replace("${path.root}", ".").strip()
NormalizeSource(source) ==
    Strip(Replace(Replace(source, PathModuleToken, <<".">>), PathRootToken, <<".">>))

\* startswith("./") or startswith("../") or startswith("modules/")
IsResolvable(normalized_source) ==
    \/ StartsWith(normalized_source, <<".", "/">>)
    \/ StartsWith(normalized_source, <<".", ".", "/">>)
    \/ StartsWith(normalized_source, <<"modules", "/">>)

\* The path components of a text: its pieces between "/" separators.
RECURSIVE SplitFrom(_, _, _)
SplitFrom(parts, cur, rest) ==
    IF rest = <<>> THEN (IF cur = "" THEN parts ELSE Append(parts, cur))
    ELSE IF Head(rest) = "/"
         THEN SplitFrom(IF cur = "" THEN parts ELSE Append(parts, cur), "", Tail(rest))
         ELSE SplitFrom(parts, cur \o Head(rest), Tail(rest))

SplitPath(text) == SplitFrom(<<>>, "", text)

\* The text fragments that hold a closing brace.
ClosesBrace(fragment) == fragment \in {"module}", "root}"}

\* module_block_re takes as the body of a block the text up to the first
\* closing brace (.*? before \}), and source_re needs both quotes of the
\* assignment inside the body: a source that holds a closing brace is cut
\* before its closing quote and is not found.
SourceInBody(tok) == \A i \in DOMAIN SourceOf(tok) : ~ClosesBrace(SourceOf(tok)[i])

\* The extraction that reads every block up to its own closing brace.
ModuleSourcesWholeBlock(content) ==
    LET isMod(tok) == tok \in ModuleTokens
        toks == SelectSeq(content, isMod)
    IN  [i \in 1..Len(toks) |-> Strip(SourceOf(toks[i]))]

\* The stripped sources found in the module blocks of a content, in textual
\* order; a block without a found source is skipped.
ModuleSources(content) ==
    LET found(tok) == tok \in ModuleTokens /\ SourceInBody(tok)
        toks == SelectSeq(content, found)
    IN  [i \in 1..Len(toks) |-> Strip(SourceOf(toks[i]))]

\* discovered_module_sources: the sources of all root-level files.
RECURSIVE DiscoveredModuleSources(_, _)
DiscoveredModuleSources(root_tf_files, fs) ==
    IF root_tf_files = <<>> THEN <<>>
    ELSE ModuleSources(fs[Head(root_tf_files)]) \o DiscoveredModuleSources(Tail(root_tf_files), fs)

\* The value of normalized_source at every turn of the loop.
NormalizedSources(sources) == [i \in DOMAIN sources |-> NormalizeSource(sources[i])]

\* The loop body of lines 198-210 over the discovered sources.
RECURSIVE ResolveSources(_, _, _)
ResolveSources(dirs, sources, fs) ==
    IF sources = <<>> THEN dirs
    ELSE LET normalized_source == NormalizeSource(Head(sources))
             module_dir == NormPath(SplitPath(normalized_source))
             add == /\ IsResolvable(normalized_source)
                    /\ IsDir(module_dir, fs)
                    /\ module_dir \notin Range(dirs)
         IN  ResolveSources(IF add THEN Append(dirs, module_dir) ELSE dirs, Tail(sources), fs)

RootTfFiles(tf_files) ==
    LET atRoot(p) == Dirname(p) = <<>>
    IN  SelectSeq(tf_files, atRoot)

ModuleSourceDirs(tf_files, fs) ==
    ResolveSources(<<>>, DiscoveredModuleSources(RootTfFiles(tf_files), fs), fs)

\* ------------------------------------------------------------- selector
\* any(resource in content for resource in affected_resources)
ContainsAffected(content, affected) == \E i \in DOMAIN affected : Has(content, affected[i])

\* any(marker in content.lower() for marker in resource_markers)
ContainsMarker(content, rtype) == \E i \in DOMAIN content : rtype \in Mentions(content[i])

MatchedFiles(tf_files, affected, fs) ==
    LET hit(p) == ContainsAffected(fs[p], affected)
    IN  SelectSeq(tf_files, hit)

ResourceRelatedFiles(all_files, rtype, fs) ==
    LET hit(p) == ContainsMarker(fs[p], rtype)
    IN  SelectSeq(all_files, hit)

\* Lines 238-243: the definition files below every resolved module directory.
RECURSIVE FilesOfModuleDirs(_, _, _)
FilesOfModuleDirs(dirs, fs, r) ==
    IF dirs = <<>> THEN <<>>
    ELSE DefinitionFilesUnder(Head(dirs), fs, r) \o FilesOfModuleDirs(Tail(dirs), fs, r)

\* The fallback without its restriction to modules/<resource_type>.
ModuleFilesUnrestricted(dirs, rtype, fs, r) ==
    LET found == FilesOfModuleDirs(dirs, fs, r)
        modules_dir_at_root == <<"modules">>
    IN  IF IsDir(modules_dir_at_root, fs) /\ found = <<>>
        THEN DefinitionFilesUnder(modules_dir_at_root, fs, r)
        ELSE found

\* Lines 238-261: module_files with the root-level modules/ fallback.
ModuleFiles(dirs, rtype, fs, r) ==
    LET found == FilesOfModuleDirs(dirs, fs, r)
        modules_dir_at_root == <<"modules">>
        resource_specific_module == <<"modules", rtype>>
    IN  IF IsDir(modules_dir_at_root, fs) /\ found = <<>>
        THEN IF IsDir(resource_specific_module, fs)
             THEN DefinitionFilesUnder(resource_specific_module, fs, r)
             ELSE DefinitionFilesUnder(modules_dir_at_root, fs, r)
        ELSE found

\* The check without its `affected_resources and` conjunct.
NoneFoundIgnoringAffected(affected, matched, related, modfiles) ==
    matched = <<>> /\ related = <<>> /\ modfiles = <<>>

\* Line 263: the condition of the "none of the affected resources" error.
NoneFound(affected, matched, related, modfiles) ==
    affected # <<>> /\ matched = <<>> /\ related = <<>> /\ modfiles = <<>>

\* list.append of every element of `extra` that `base` does not hold yet.
RECURSIVE AppendNew(_, _)
AppendNew(base, extra) ==
    IF extra = <<>> THEN base
    ELSE AppendNew(IF Head(extra) \in Range(base) THEN base ELSE Append(base, Head(extra)), Tail(extra))

\* The selection with the module tier tried before the resource-type tier.
SelectCandidatesModulesFirst(affected, matched, related, modfiles, tf_files) ==
    IF matched # <<>> THEN
        LET matched_dirs == {Dirname(p) : p \in Range(matched)}
            inDirs(p) == Dirname(p) \in matched_dirs
        IN  [tier |-> 1, files |-> AppendNew(matched, SelectSeq(tf_files, inDirs))]
    ELSE IF modfiles # <<>> THEN
        [tier |-> 3, files |-> AppendNew(modfiles, RootTfFiles(tf_files))]
    ELSE IF affected # <<>> /\ related # <<>> THEN
        [tier |-> 2, files |-> related]
    ELSE
        [tier |-> 4, files |-> tf_files]

\* The selection without the directory expansion of tier 1.
SelectCandidatesNoSiblings(affected, matched, related, modfiles, tf_files) ==
    IF matched # <<>> THEN
        [tier |-> 1, files |-> matched]
    ELSE IF affected # <<>> /\ related # <<>> THEN
        [tier |-> 2, files |-> related]
    ELSE IF modfiles # <<>> THEN
        [tier |-> 3, files |-> AppendNew(modfiles, RootTfFiles(tf_files))]
    ELSE
        [tier |-> 4, files |-> tf_files]

\* The selection whose tier 2 does not test resource_related_files.
SelectCandidatesTier2Unchecked(affected, matched, related, modfiles, tf_files) ==
    IF matched # <<>> THEN
        LET matched_dirs == {Dirname(p) : p \in Range(matched)}
            inDirs(p) == Dirname(p) \in matched_dirs
        IN  [tier |-> 1, files |-> AppendNew(matched, SelectSeq(tf_files, inDirs))]
    ELSE IF affected # <<>> THEN
        [tier |-> 2, files |-> related]
    ELSE IF modfiles # <<>> THEN
        [tier |-> 3, files |-> AppendNew(modfiles, RootTfFiles(tf_files))]
    ELSE
        [tier |-> 4, files |-> tf_files]

\* The selection whose tier 3 leaves out the root-level files.
SelectCandidatesNoRoot(affected, matched, related, modfiles, tf_files) ==
    IF matched # <<>> THEN
        LET matched_dirs == {Dirname(p) : p \in Range(matched)}
            inDirs(p) == Dirname(p) \in matched_dirs
        IN  [tier |-> 1, files |-> AppendNew(matched, SelectSeq(tf_files, inDirs))]
    ELSE IF affected # <<>> /\ related # <<>> THEN
        [tier |-> 2, files |-> related]
    ELSE IF modfiles # <<>> THEN
        [tier |-> 3, files |-> modfiles]
    ELSE
        [tier |-> 4, files |-> tf_files]

\* The selection whose tier 4 offers the root-level files only.
SelectCandidatesTier4RootOnly(affected, matched, related, modfiles, tf_files) ==
    IF matched # <<>> THEN
        LET matched_dirs == {Dirname(p) : p \in Range(matched)}
            inDirs(p) == Dirname(p) \in matched_dirs
        IN  [tier |-> 1, files |-> AppendNew(matched, SelectSeq(tf_files, inDirs))]
    ELSE IF affected # <<>> /\ related # <<>> THEN
        [tier |-> 2, files |-> related]
    ELSE IF modfiles # <<>> THEN
        [tier |-> 3, files |-> AppendNew(modfiles, RootTfFiles(tf_files))]
    ELSE
        [tier |-> 4, files |-> RootTfFiles(tf_files)]

\* Lines 275-295: the tier that is taken and the candidate list it yields.
SelectCandidates(affected, matched, related, modfiles, tf_files) ==
    IF matched # <<>> THEN
        LET matched_dirs == {Dirname(p) : p \in Range(matched)}
            inDirs(p) == Dirname(p) \in matched_dirs
        IN  [tier |-> 1, files |-> AppendNew(matched, SelectSeq(tf_files, inDirs))]
    ELSE IF affected # <<>> /\ related # <<>> THEN
        [tier |-> 2, files |-> related]
    ELSE IF modfiles # <<>> THEN
        [tier |-> 3, files |-> AppendNew(modfiles, RootTfFiles(tf_files))]
    ELSE
        [tier |-> 4, files |-> tf_files]

\* ------------------------------------------------------ context building
max_files == 50

max_total_chars == 200000

\* content[:n]: the tokens that fit whole, then the first characters of
\* the filler run that does not.
RECURSIVE Truncate(_, _)
Truncate(content, n) ==
    IF content = <<>> \/ n <= 0 THEN <<>>
    ELSE IF Width(Head(content)) <= n
         THEN <<Head(content)>> \o Truncate(Tail(content), n - Width(Head(content)))
         ELSE Filler(n)

\* dict item assignment: d[k] = v
DictSet(d, k, v) == (k :> v) @@ d

EmptyDict == [q \in {} |-> <<>>]

\* The loop that stops only when the budget is overdrawn.
RECURSIVE ReadCandidatesLateBreak(_, _, _, _)
ReadCandidatesLateBreak(files, fs, contents, total_chars) ==
    IF files = <<>> THEN contents
    ELSE LET content == fs[Head(files)]
             remaining == max_total_chars - total_chars
             kept == IF Chars(content) > remaining THEN Truncate(content, remaining) ELSE content
         IN  IF remaining < 0 THEN contents
             ELSE ReadCandidatesLateBreak(Tail(files), fs, DictSet(contents, Head(files), kept),
                                          total_chars + Chars(kept))

\* Lines 310-323: the loop over candidate_files[:max_files].
RECURSIVE ReadCandidates(_, _, _, _)
ReadCandidates(files, fs, contents, total_chars) ==
    IF files = <<>> THEN contents
    ELSE LET content == fs[Head(files)]
             remaining == max_total_chars - total_chars
             kept == IF Chars(content) > remaining THEN Truncate(content, remaining) ELSE content
         IN  IF remaining <= 0 THEN contents
             ELSE ReadCandidates(Tail(files), fs, DictSet(contents, Head(files), kept),
                                 total_chars + Chars(kept))

\* The loop over all of candidate_files.
TerraformFileContentsUnsliced(candidates, fs) == ReadCandidates(candidates, fs, EmptyDict, 0)

TerraformFileContents(candidates, fs) ==
    ReadCandidates(SubSeq(candidates, 1, IF Len(candidates) < max_files THEN Len(candidates) ELSE max_files),
                   fs, EmptyDict, 0)

\* ----------------------------------------------------------- the proposal
\* The keys of the `files` mapping the generation step may return.
Keys == {<<"main.tf">>, <<".", "main.tf">>, <<"env", "app.tf">>}

\* A value of the mapping: a string, or a JSON value that is no string.
NonString == [isstr |-> FALSE, text |-> <<>>]

Values == {[isstr |-> TRUE, text |-> c] : c \in {TfMain, TfMainFixed, TfStub}} \cup {NonString}

Entries == {[path |-> k, value |-> v] : k \in Keys, v \in Values}

\* A JSON object: its keys are pairwise different, its entries are ordered.
Proposals ==
    UNION {{f \in [1..n -> Entries] : \A i, j \in 1..n : i # j => f[i].path # f[j].path} : n \in 0..MaxChange}

\* The empty-mapping check left out.
NoFilesProposedNever(proposal) == FALSE

\* Line 369: `if not files_obj`
NoFilesProposed(proposal) == proposal = <<>>

\* --------------------------------------------------------------- validator
\* rel_path in ["main.tf", "terraform.tf", "providers.tf"]
IsSensitiveKey(rel_path) == rel_path \in {<<"main.tf">>, <<"terraform.tf">>, <<"providers.tf">>}

\* os.path.exists(full_path)
Exists(full_path, fs) == full_path \in DOMAIN fs \/ IsDir(full_path, fs)

\* size_ratio < 0.5, size_ratio being 0 for an empty original
SizeTooSmall(original_content, content) ==
    IF Chars(original_content) > 0 THEN 2 * Chars(content) < Chars(original_content) ELSE TRUE

\* "Removed {original_module_count - new_module_count} module block(s)"
RemovedModules(original_content, content) ==
    "Removed " \o ToString(ModuleCount(original_content) - ModuleCount(content)) \o " module block(s)"

\* "File size reduced by ...% (likely truncated)", the percentage left out.
FileSizeReduced == "File size reduced (likely truncated)"

\* The validator that counts the module blocks of every original.
ValidateAnyModuleCount(original_content, content) ==
    (IF ModuleCount(original_content) > 0 /\ ModuleCount(content) < ModuleCount(original_content)
     THEN <<RemovedModules(original_content, content)>> ELSE <<>>)
    \o (IF Has(original_content, "terraform {") /\ ~Has(content, "terraform {")
        THEN <<"Removed terraform backend configuration">> ELSE <<>>)
    \o (IF Has(original_content, "variable \"") /\ ~Has(content, "variable \"")
        THEN <<"Removed variable definitions">> ELSE <<>>)
    \o (IF Has(original_content, "output \"") /\ ~Has(content, "output \"")
        THEN <<"Removed output definitions">> ELSE <<>>)
    \o (IF Has(original_content, "resource \"") /\ ~Has(content, "resource \"")
        THEN <<"Removed resource definitions">> ELSE <<>>)
    \o (IF SizeTooSmall(original_content, content) THEN <<FileSizeReduced>> ELSE <<>>)

\* Lines 391-428: the list of errors of one sensitive file.
Validate(original_content, content) ==
    (IF ModuleCount(original_content) > 1 /\ ModuleCount(content) < ModuleCount(original_content)
     THEN <<RemovedModules(original_content, content)>> ELSE <<>>)
    \o (IF Has(original_content, "terraform {") /\ ~Has(content, "terraform {")
        THEN <<"Removed terraform backend configuration">> ELSE <<>>)
    \o (IF Has(original_content, "variable \"") /\ ~Has(content, "variable \"")
        THEN <<"Removed variable definitions">> ELSE <<>>)
    \o (IF Has(original_content, "output \"") /\ ~Has(content, "output \"")
        THEN <<"Removed output definitions">> ELSE <<>>)
    \o (IF Has(original_content, "resource \"") /\ ~Has(content, "resource \"")
        THEN <<"Removed resource definitions">> ELSE <<>>)
    \o (IF SizeTooSmall(original_content, content) THEN <<FileSizeReduced>> ELSE <<>>)

\* Line 387: the entries whose replacement is validated before the write.
IsValidated(rel_path, fs) == Exists(NormPath(rel_path), fs) /\ IsSensitiveKey(rel_path)

\* ---------------------------------------------------------------- git
\* A diff that lists every tracked file, changed or not.
DiffNamesAllTracked(tree, fs) == DOMAIN tree

\* git diff --name-only: the tracked files whose working-tree text differs
\* from the index; a file git does not track is not listed.
DiffNames(tree, fs) == {p \in DOMAIN tree : p \notin DOMAIN fs \/ fs[p] # tree[p]}

\* The files below repo_path: a path that begins with ".." or with "/" lies
\* outside the checkout.
InCheckout(fs) == [p \in {q \in DOMAIN fs : q[1] \notin {"..", "/"}} |-> fs[p]]

\* ------------------------------------------------------------ the classifier
\* What the intent holds under 'Violation/Issue description': a JSON string,
\* list, null, number or object, or nothing (then the default 'N/A' is taken).
DescriptionKinds == {"string", "absent", "list", "null", "number", "object"}

\* value[:100] is defined for strings and lists and raises TypeError otherwise.
Sliceable(kind) == kind \in {"string", "absent", "list"}

\* The texts the classification call may answer with.
ClassifierAnswers == {"s3", " S3", "generic", "ec2"}

\* response.content.strip().lower()
StripLower(answer) ==
    CASE answer = " S3" -> "s3"
      [] OTHER -> answer

\* supported[0]
DefaultType == CHOOSE t \in ResourceTypes : TRUE

\* Lines 76-119: what classify_resource_type returns for an outcome of the
\* classification call.
Classified(outcome, answer) ==
    IF outcome = "exception" THEN DefaultType
    ELSE IF StripLower(answer) \notin ResourceTypes THEN DefaultType
    ELSE StripLower(answer)

\* ------------------------------------------------------------ the branch
NoBranch == "<none>"

\* datetime.now().strftime("%Y-%m-%d-%H%M%S")
Timestamps == {"2026-01-05-101500"}

\* jira_id.upper()
Upper(jira_id) ==
    CASE jira_id = "sec-1" -> "SEC-1"
      [] jira_id = "unknown" -> "UNKNOWN"
      [] OTHER -> jira_id

\* f"{timestamp}-{jira_id.upper()}"
BranchName(timestamp, jira_id) == timestamp \o "-" \o Upper(jira_id)

\* ------------------------------------------------------------ the checkouts
WORKDIR == "/tmp/mcp-github"

\* The repositories of the tickets, as owner and name.
Repos == {<<"acme", "infra">>, <<"acme", "network">>, <<"globex", "infra">>}

\* repo.split("/")[-1] joined to WORKDIR.
RepoPath(repo) == <<WORKDIR, repo[Len(repo)]>>

\* A request that has not arrived yet.
Waiting == [stage |-> "waiting", repo |-> <<>>, repo_path |-> <<>>]

VARIABLES
    pc,                  \* position of the run inside create_pr
    err,                 \* the terminal condition raised, "none" while running
    disk,                \* working tree of the checkout: path -> content
    committed,           \* tree of the checked-out commit: path -> content
    rev,                 \* directory listing order of the file system
    affected_resources,
    resource_type,
    calls,               \* the MCP tools invoked so far, in order
    terraform_files,
    terragrunt_files,
    discovered_module_sources,
    normalized_sources,  \* history: normalized_source at every turn of the loop
    module_source_dirs,
    matched_files,
    resource_related_files,
    module_files,
    candidate_files,
    tier,                \* the selection tier taken, 0 before selection
    terraform_file_contents,
    payload,             \* what the generation step answered, "none" before
    files_obj,           \* the `files` mapping, as its sequence of items
    idx,                 \* the item of files_obj the write loop is at
    changed_files,
    verdicts,            \* history: every validator call of the run
    written,             \* history: every file write of the run
    diff_names,
    intent,              \* the fields of the intent the run reads and writes
    branch,
    call_args,           \* history: the branch argument of every tool call
    run_no,              \* the number of the run on this checkout
    runs                 \* the requests the service is handling

ticket == <<intent, branch, run_no, runs>>
inputs == <<rev, affected_resources, resource_type, ticket>>
git == <<disk, committed, calls, call_args>>
scanned == <<terraform_files, terragrunt_files>>
resolved == <<discovered_module_sources, normalized_sources, module_source_dirs, matched_files,
             resource_related_files, module_files>>
selected == <<candidate_files, tier>>
generated == <<terraform_file_contents, payload, files_obj>>
applied == <<idx, changed_files, verdicts, written>>
vars == <<pc, err, inputs, git, scanned, resolved, selected, generated, applied, diff_names>>


Init ==
    /\ pc = "start"
    /\ err = "none"
    /\ disk \in Layouts
    /\ committed = disk
    /\ rev \in BOOLEAN
    /\ affected_resources \in AffectedOptions
    /\ resource_type \in ResourceTypes
    /\ calls = <<>>
    /\ terraform_files = <<>>
    /\ terragrunt_files = <<>>
    /\ discovered_module_sources = <<>>
    /\ normalized_sources = <<>>
    /\ module_source_dirs = <<>>
    /\ matched_files = <<>>
    /\ resource_related_files = <<>>
    /\ module_files = <<>>
    /\ candidate_files = <<>>
    /\ tier = 0
    /\ terraform_file_contents = EmptyDict
    /\ payload = "none"
    /\ files_obj = <<>>
    /\ idx = 1
    /\ changed_files = <<>>
    /\ verdicts = <<>>
    /\ written = <<>>
    /\ diff_names = {}
    /\ intent = [description |-> "string", jira_id |-> "sec-1", branch |-> NoBranch]
    /\ branch = NoBranch
    /\ call_args = <<>>
    /\ run_no = 1
    /\ runs = [r \in 1..MaxConcurrent |-> Waiting]

\* Lines 118-125 name the branch and store it in the intent; then
\* tool_map["clone_repo"].ainvoke.  A checkout that exists already is kept
\* as it is: fetch, checkout of the default branch and pull --ff-only leave
\* the modifications of the working tree in place.
CloneRepo ==
    /\ pc = "start"
    /\ \E timestamp \in Timestamps :
        /\ branch' = BranchName(timestamp, intent.jira_id)
        /\ intent' = [intent EXCEPT !.branch = branch']
    /\ calls' = Append(calls, "clone_repo")
    /\ call_args' = Append(call_args, NoBranch)
    /\ pc' = "cloned"
    /\ UNCHANGED <<err, rev, affected_resources, resource_type, run_no, runs, disk, committed,
                   scanned, resolved, selected, generated, applied, diff_names>>

\* tool_map["create_branch"].ainvoke
CreateBranch ==
    /\ pc = "cloned"
    /\ calls' = Append(calls, "create_branch")
    /\ call_args' = Append(call_args, branch)
    /\ pc' = "branched"
    /\ UNCHANGED <<err, inputs, disk, committed, scanned, resolved, selected, generated, applied, diff_names>>

\* 3: scan repo
ScanRepo ==
    /\ pc = "branched"
    /\ terraform_files' = DefinitionFilesUnder(<<>>, disk, rev)
    /\ terragrunt_files' = ManifestFilesUnder(<<>>, disk, rev)
    /\ IF terraform_files' = <<>> /\ terragrunt_files' = <<>>
       THEN pc' = "failed" /\ err' = "DiscoveryEmpty"
       ELSE pc' = "scanned" /\ err' = err
    /\ UNCHANGED <<inputs, git, resolved, selected, generated, applied, diff_names>>

\* Module sources, matched files, related files and module files.
ResolveFiles ==
    /\ pc = "scanned"
    /\ discovered_module_sources' = DiscoveredModuleSources(RootTfFiles(terraform_files), disk)
    /\ normalized_sources' = NormalizedSources(discovered_module_sources')
    /\ module_source_dirs' = ModuleSourceDirs(terraform_files, disk)
    /\ matched_files' = MatchedFiles(terraform_files, affected_resources, disk)
    /\ resource_related_files' =
           ResourceRelatedFiles(terraform_files \o terragrunt_files, resource_type, disk)
    /\ module_files' = ModuleFiles(module_source_dirs', resource_type, disk, rev)
    /\ pc' = "resolved"
    /\ UNCHANGED <<err, inputs, git, scanned, selected, generated, applied, diff_names>>

\* The "none found" check, the tier selection and the "no candidates" check.
SelectFiles ==
    /\ pc = "resolved"
    /\ IF NoneFound(affected_resources, matched_files, resource_related_files, module_files)
       THEN /\ pc' = "failed"
            /\ err' = "NoFilesMatchedAffectedResources"
            /\ UNCHANGED selected
       ELSE LET sel == SelectCandidates(affected_resources, matched_files,
                                        resource_related_files, module_files, terraform_files)
            IN  /\ candidate_files' = sel.files
                /\ tier' = sel.tier
                /\ IF sel.files = <<>>
                   THEN pc' = "failed" /\ err' = "NoCandidateFiles"
                   ELSE pc' = "selected" /\ err' = err
    /\ UNCHANGED <<inputs, git, scanned, resolved, generated, applied, diff_names>>

\* Lines 306-323: the capped contents of the candidate files.
BuildContext ==
    /\ pc = "selected"
    /\ terraform_file_contents' = TerraformFileContents(candidate_files, disk)
    /\ pc' = "context"
    /\ UNCHANGED <<err, inputs, git, scanned, resolved, selected, payload, files_obj, applied, diff_names>>

\* 4: the generation step answers.  Its answer is no JSON, JSON without a
\* `files` object, or a `files` object.
Generate ==
    /\ pc = "context"
    /\ UNCHANGED terraform_file_contents
    /\ \E kind \in {"invalid_json", "no_files_object", "files"} :
        /\ payload' = kind
        /\ IF kind # "files"
           THEN /\ pc' = "failed"
                /\ err' = "MalformedChangePayload"
                /\ files_obj' = files_obj
           ELSE \E proposal \in Proposals :
                /\ files_obj' = proposal
                /\ IF NoFilesProposed(proposal)
                   THEN pc' = "failed" /\ err' = "EmptyFilesObject"
                   ELSE pc' = "applying" /\ err' = err
    /\ UNCHANGED <<inputs, git, scanned, resolved, selected, applied, diff_names>>

\* 5: one iteration of the loop over files_obj.items().
ApplyEntry ==
    /\ pc = "applying"
    /\ idx <= Len(files_obj)
    /\ LET rel_path == files_obj[idx].path
           value == files_obj[idx].value
           content == value.text
           full_path == NormPath(rel_path)
           original == IF full_path \in DOMAIN disk THEN disk[full_path] ELSE Absent
           errors == Validate(original, content)
       IN  IF ~value.isstr
           THEN /\ pc' = "failed"
                /\ err' = "MalformedChangePayload"
                /\ UNCHANGED <<disk, applied>>
           ELSE IF IsValidated(rel_path, disk) /\ errors # <<>>
           THEN /\ pc' = "failed"
                /\ err' = "StructuralLossRejected"
                /\ verdicts' = Append(verdicts, [path |-> full_path, original |-> original,
                                                 content |-> content, errors |-> errors])
                /\ UNCHANGED <<disk, idx, changed_files, written>>
           ELSE /\ disk' = DictSet(disk, full_path, content)
                /\ changed_files' = Append(changed_files, full_path)
                /\ written' = Append(written, [path |-> full_path, original |-> original,
                                               content |-> content])
                /\ verdicts' = IF IsValidated(rel_path, disk)
                               THEN Append(verdicts, [path |-> full_path, original |-> original,
                                                      content |-> content, errors |-> errors])
                               ELSE verdicts
                /\ idx' = idx + 1
                /\ pc' = pc
                /\ err' = err
    /\ UNCHANGED <<inputs, committed, calls, call_args, scanned, resolved, selected, generated,
                   diff_names>>

\* The loop is over; terraform fmt only re-arranges white space, which the
\* text fragments do not show.  Then the diff check of lines 471-477.
CheckDiff ==
    /\ pc = "applying"
    /\ idx > Len(files_obj)
    /\ diff_names' = DiffNames(committed, disk)
    /\ IF diff_names' = {}
       THEN pc' = "failed" /\ err' = "EmptyDiff"
       ELSE pc' = "diffed" /\ err' = err
    /\ UNCHANGED <<inputs, git, scanned, resolved, selected, generated, applied>>

\* tool_map["commit_changes"].ainvoke: git add . and git commit
CommitChanges ==
    /\ pc = "diffed"
    /\ calls' = Append(calls, "commit_changes")
    /\ call_args' = Append(call_args, NoBranch)
    /\ committed' = InCheckout(disk)
    /\ pc' = "committed"
    /\ UNCHANGED <<err, inputs, disk, scanned, resolved, selected, generated, applied, diff_names>>

\* The push of the branch the intent arrived with, not of the one the run
\* has created.
PushBranchOfArrival ==
    /\ pc = "committed"
    /\ calls' = Append(calls, "push_branch")
    /\ call_args' = Append(call_args, NoBranch)
    /\ pc' = "pushed"
    /\ UNCHANGED <<err, inputs, disk, committed, scanned, resolved, selected, generated, applied, diff_names>>

\* tool_map["push_branch"].ainvoke
PushBranch ==
    /\ pc = "committed"
    /\ calls' = Append(calls, "push_branch")
    /\ call_args' = Append(call_args, branch)
    /\ pc' = "pushed"
    /\ UNCHANGED <<err, inputs, disk, committed, scanned, resolved, selected, generated, applied, diff_names>>

\* tool_map["create_pull_request"].ainvoke
CreatePullRequest ==
    /\ pc = "pushed"
    /\ calls' = Append(calls, "create_pull_request")
    /\ call_args' = Append(call_args, branch)
    /\ pc' = "done"
    /\ UNCHANGED <<err, inputs, disk, committed, scanned, resolved, selected, generated, applied, diff_names>>

Next ==
    \/ CloneRepo
    \/ CreateBranch
    \/ ScanRepo
    \/ ResolveFiles
    \/ SelectFiles
    \/ BuildContext
    \/ Generate
    \/ ApplyEntry
    \/ CheckDiff
    \/ CommitChanges
    \/ PushBranch
    \/ CreatePullRequest

Spec == Init /\ [][Next]_vars

\* ----------------------------------------------------------------------
\* The validator on one proposed replacement of an existing root main.tf:
\* the run stands before the loop over a `files` object of one entry.
\* ----------------------------------------------------------------------
Block(present, tok) == IF present THEN <<tok>> ELSE <<>>

PadSizes == {0, 400, 1000}

\* Texts of up to MaxModules module blocks, with or without a terraform block,
\* variables, outputs and resources, followed by filler; the empty text is
\* one of them.
ValidatorContents ==
    {[i \in 1..m |-> "module_registry"] \o Block(t, "terraform {") \o Block(v, "variable \"")
        \o Block(o, "output \"") \o Block(r, "resource \"") \o Filler(pad) :
        m \in 0..MaxModules, t \in BOOLEAN, v \in BOOLEAN, o \in BOOLEAN, r \in BOOLEAN,
        pad \in PadSizes}

ValidatorInit ==
    \E original \in ValidatorContents, content \in ValidatorContents :
        LET fs == (<<"main.tf">> :> original)
            tf_files == <<<<"main.tf">>>>
            sources == DiscoveredModuleSources(tf_files, fs)
            related == ResourceRelatedFiles(tf_files, "s3", fs)
            sel == SelectCandidates(<<>>, <<>>, related, <<>>, tf_files)
        IN  /\ pc = "applying"
            /\ err = "none"
            /\ disk = fs
            /\ committed = fs
            /\ rev = FALSE
            /\ affected_resources = <<>>
            /\ resource_type = "s3"
            /\ calls = <<"clone_repo", "create_branch">>
            /\ terraform_files = tf_files
            /\ terragrunt_files = <<>>
            /\ discovered_module_sources = sources
            /\ normalized_sources = NormalizedSources(sources)
            /\ module_source_dirs = <<>>
            /\ matched_files = <<>>
            /\ resource_related_files = related
            /\ module_files = <<>>
            /\ candidate_files = sel.files
            /\ tier = sel.tier
            /\ terraform_file_contents = TerraformFileContents(sel.files, fs)
            /\ payload = "files"
            /\ files_obj = <<[path |-> <<"main.tf">>, value |-> [isstr |-> TRUE, text |-> content]]>>
            /\ idx = 1
            /\ changed_files = <<>>
            /\ verdicts = <<>>
            /\ written = <<>>
            /\ diff_names = {}
            /\ branch \in {BranchName(ts, "sec-1") : ts \in Timestamps}
            /\ intent = [description |-> "string", jira_id |-> "sec-1", branch |-> branch]
            /\ call_args = <<NoBranch, branch>>
            /\ run_no = 1
            /\ runs = [r \in 1..MaxConcurrent |-> Waiting]

ValidatorNext == ApplyEntry

ValidatorSpec == ValidatorInit /\ [][ValidatorNext]_vars

\* ----------------------------------------------------------------------
\* The context cap on checkouts of large and of many files: the run stands
\* right after the selection, which took every definition file (no
\* identifiers, nothing related, no module).
\* ----------------------------------------------------------------------
\* A text of n characters.
TextOfLength(n) == <<"resource \"">> \o Filler(n - 1)

FileSizes == {1, 120000, max_total_chars, max_total_chars + 1}

FileCounts == {max_files - 1, max_files, max_files + 1}

\* The sizes of the definition files of a checkout, in listing order.
SizeLists ==
    UNION {[1..n -> FileSizes] : n \in 1..MaxBigFiles} \cup {[i \in 1..n |-> 1] : n \in FileCounts}
        \cup {[i \in 1..n |-> IF i = 2 THEN max_total_chars ELSE 1] : n \in FileCounts}

NumberedFile(i) == <<ToString(i) \o ".tf">>

LargeCheckout(sizes) == [p \in {NumberedFile(i) : i \in DOMAIN sizes} |->
                            TextOfLength(sizes[CHOOSE i \in DOMAIN sizes : NumberedFile(i) = p])]

CapInit ==
    \E sizes \in SizeLists :
        /\ pc = "selected"
        /\ err = "none"
        /\ disk = LargeCheckout(sizes)
        /\ committed = disk
        /\ rev \in BOOLEAN
        /\ affected_resources = <<>>
        /\ resource_type = "s3"
        /\ calls = <<"clone_repo", "create_branch">>
        /\ terraform_files = (IF rev THEN Reverse([i \in DOMAIN sizes |-> NumberedFile(i)])
                                     ELSE [i \in DOMAIN sizes |-> NumberedFile(i)])
        /\ terragrunt_files = <<>>
        /\ discovered_module_sources = <<>>
        /\ normalized_sources = <<>>
        /\ module_source_dirs = <<>>
        /\ matched_files = <<>>
        /\ resource_related_files = <<>>
        /\ module_files = <<>>
        /\ candidate_files = terraform_files
        /\ tier = 4
        /\ terraform_file_contents = EmptyDict
        /\ payload = "none"
        /\ files_obj = <<>>
        /\ idx = 1
        /\ changed_files = <<>>
        /\ verdicts = <<>>
        /\ written = <<>>
        /\ diff_names = {}
        /\ branch \in {BranchName(ts, "sec-1") : ts \in Timestamps}
        /\ intent = [description |-> "string", jira_id |-> "sec-1", branch |-> branch]
        /\ call_args = <<NoBranch, branch>>
        /\ run_no = 1
        /\ runs = [r \in 1..MaxConcurrent |-> Waiting]

CapNext == BuildContext

CapSpec == CapInit /\ [][CapNext]_vars

\* ----------------------------------------------------------------------
\* The module resolver on root files that declare modules of every kind of
\* source: the run stands right after the scan.
\* ----------------------------------------------------------------------
\* A root main.tf of one to MaxModuleBlocks module blocks.
ModuleContents == UNION {[1..n -> ModuleTokens] : n \in 1..MaxModuleBlocks}

\* The files the module sources may lead to; a path that starts with ".."
\* lies in a sibling directory of the checkout inside WORKDIR.
ModuleTargets ==
    {<<"modules", "s3", "main.tf">>, <<"modules", "kms", "main.tf">>,
     <<"modules", "kms", "v1", "main.tf">>, <<"..", "shared", "main.tf">>}

ResolverLayouts ==
    {[p \in {<<"main.tf">>} \cup present |-> IF p = <<"main.tf">> THEN c ELSE TfPlain] :
        c \in ModuleContents, present \in SUBSET ModuleTargets}

ResolverInit ==
    /\ pc = "scanned"
    /\ err = "none"
    /\ disk \in ResolverLayouts
    /\ committed = InCheckout(disk)
    /\ rev \in BOOLEAN
    /\ affected_resources = <<>>
    /\ resource_type \in ResourceTypes
    /\ calls = <<"clone_repo", "create_branch">>
    /\ terraform_files = DefinitionFilesUnder(<<>>, disk, rev)
    /\ terragrunt_files = ManifestFilesUnder(<<>>, disk, rev)
    /\ discovered_module_sources = <<>>
    /\ normalized_sources = <<>>
    /\ module_source_dirs = <<>>
    /\ matched_files = <<>>
    /\ resource_related_files = <<>>
    /\ module_files = <<>>
    /\ candidate_files = <<>>
    /\ tier = 0
    /\ terraform_file_contents = EmptyDict
    /\ payload = "none"
    /\ files_obj = <<>>
    /\ idx = 1
    /\ changed_files = <<>>
    /\ verdicts = <<>>
    /\ written = <<>>
    /\ diff_names = {}
    /\ branch \in {BranchName(ts, "sec-1") : ts \in Timestamps}
    /\ intent = [description |-> "string", jira_id |-> "sec-1", branch |-> branch]
    /\ call_args = <<NoBranch, branch>>
    /\ run_no = 1
    /\ runs = [r \in 1..MaxConcurrent |-> Waiting]

ResolverNext == ResolveFiles

ResolverSpec == ResolverInit /\ [][ResolverNext]_vars

\* The same checkouts taken through the selection and the context step.
SelectorNext ==
    \/ ResolveFiles
    \/ SelectFiles
    \/ BuildContext

SelectorSpec == ResolverInit /\ [][SelectorNext]_vars

\* ----------------------------------------------------------------------
\* The classification and the prompt-template lookup that open create_pr:
\* the run stands before line 69.
\* ----------------------------------------------------------------------
NoType == "<none>"

\* classify_resource_type: the tracker call of lines 71-75 slices the
\* description before the try block is entered; inside the try block every
\* outcome of the classification call ends in a supported type.
ClassifyResourceType ==
    /\ pc = "classify"
    /\ IF ~Sliceable(intent.description)
       THEN /\ pc' = "failed"
            /\ err' = "TypeError"
            /\ resource_type' = resource_type
       ELSE \E outcome \in {"answer", "exception"}, answer \in ClassifierAnswers :
            /\ resource_type' = Classified(outcome, answer)
            /\ pc' = "template"
            /\ err' = err
    /\ UNCHANGED <<rev, affected_resources, ticket, git, scanned, resolved, selected, generated,
                   applied, diff_names>>

\* get_prompt_template(resource_type)
GetPromptTemplate ==
    /\ pc = "template"
    /\ IF resource_type \in ResourceTypes
       THEN pc' = "start" /\ err' = err
       ELSE pc' = "failed" /\ err' = "NoPromptTemplate"
    /\ UNCHANGED <<inputs, git, scanned, resolved, selected, generated, applied, diff_names>>

ClassifierInit ==
    /\ pc = "classify"
    /\ err = "none"
    /\ disk \in Layouts
    /\ committed = disk
    /\ rev \in BOOLEAN
    /\ affected_resources \in AffectedOptions
    /\ resource_type = NoType
    /\ calls = <<>>
    /\ terraform_files = <<>>
    /\ terragrunt_files = <<>>
    /\ discovered_module_sources = <<>>
    /\ normalized_sources = <<>>
    /\ module_source_dirs = <<>>
    /\ matched_files = <<>>
    /\ resource_related_files = <<>>
    /\ module_files = <<>>
    /\ candidate_files = <<>>
    /\ tier = 0
    /\ terraform_file_contents = EmptyDict
    /\ payload = "none"
    /\ files_obj = <<>>
    /\ idx = 1
    /\ changed_files = <<>>
    /\ verdicts = <<>>
    /\ written = <<>>
    /\ diff_names = {}
    /\ intent \in {[description |-> k, jira_id |-> "sec-1", branch |-> NoBranch] : k \in DescriptionKinds}
    /\ branch = NoBranch
    /\ call_args = <<>>
    /\ run_no = 1
    /\ runs = [r \in 1..MaxConcurrent |-> Waiting]

ClassifierNext ==
    \/ ClassifyResourceType
    \/ GetPromptTemplate

ClassifierSpec == ClassifierInit /\ [][ClassifierNext]_vars

\* ----------------------------------------------------------------------
\* The write stage on `files` mappings whose keys leave the checkout: the
\* run stands before the loop over files_obj.items().
\* ----------------------------------------------------------------------
\* Keys "main.tf", "env/app.tf", "../network/main.tf" and "/etc/main.tf".
WriteKeys ==
    {<<"main.tf">>, <<"env", "app.tf">>, <<"..", "network", "main.tf">>, <<"/", "etc", "main.tf">>}

WriteEntries ==
    {[path |-> k, value |-> [isstr |-> TRUE, text |-> c]] : k \in WriteKeys, c \in {TfMainFixed, TfStub}}

WriteProposals ==
    UNION {{f \in [1..n -> WriteEntries] : \A i, j \in 1..n : i # j => f[i].path # f[j].path} :
           n \in 1..MaxChange}

\* The checkout, alone in WORKDIR or beside the checkout of another
\* repository.
WriteLayouts ==
    {(<<"main.tf">> :> TfMain),
     (<<"main.tf">> :> TfMain) @@ (<<"..", "network", "main.tf">> :> TfPlain)}

WriteInit ==
    \E fs \in WriteLayouts, proposal \in WriteProposals :
        LET tf_files == DefinitionFilesUnder(<<>>, fs, FALSE)
            sources == DiscoveredModuleSources(RootTfFiles(tf_files), fs)
            dirs == ModuleSourceDirs(tf_files, fs)
            related == ResourceRelatedFiles(tf_files, "s3", fs)
            modfiles == ModuleFiles(dirs, "s3", fs, FALSE)
            sel == SelectCandidates(<<>>, <<>>, related, modfiles, tf_files)
        IN  /\ pc = "applying"
            /\ err = "none"
            /\ disk = fs
            /\ committed = InCheckout(fs)
            /\ rev = FALSE
            /\ affected_resources = <<>>
            /\ resource_type = "s3"
            /\ calls = <<"clone_repo", "create_branch">>
            /\ terraform_files = tf_files
            /\ terragrunt_files = <<>>
            /\ discovered_module_sources = sources
            /\ normalized_sources = NormalizedSources(sources)
            /\ module_source_dirs = dirs
            /\ matched_files = <<>>
            /\ resource_related_files = related
            /\ module_files = modfiles
            /\ candidate_files = sel.files
            /\ tier = sel.tier
            /\ terraform_file_contents = TerraformFileContents(sel.files, fs)
            /\ payload = "files"
            /\ files_obj = proposal
            /\ idx = 1
            /\ changed_files = <<>>
            /\ verdicts = <<>>
            /\ written = <<>>
            /\ diff_names = {}
            /\ branch \in {BranchName(ts, "sec-1") : ts \in Timestamps}
            /\ intent = [description |-> "string", jira_id |-> "sec-1", branch |-> branch]
            /\ call_args = <<NoBranch, branch>>
            /\ run_no = 1
            /\ runs = [r \in 1..MaxConcurrent |-> Waiting]

WriteNext ==
    \/ ApplyEntry
    \/ CheckDiff
    \/ CommitChanges
    \/ PushBranch
    \/ CreatePullRequest

WriteSpec == WriteInit /\ [][WriteNext]_vars

\* ----------------------------------------------------------------------
\* Runs one after the other on the same repository: a failed run is
\* followed by a run that finds the checkout of the failed one.
\* ----------------------------------------------------------------------
\* Checkouts of a root main.tf, with or without env/app.tf.
ReuseLayouts ==
    {l \in Layouts : <<"main.tf">> \in DOMAIN l /\ DOMAIN l \subseteq {<<"main.tf">>, <<"env", "app.tf">>}}

ReuseInit ==
    /\ Init
    /\ disk \in ReuseLayouts
    /\ rev = FALSE
    /\ affected_resources = <<>>

\* The next request for the repository arrives after the run has failed;
\* nothing of the checkout is touched between the two runs.
NextRun ==
    /\ pc = "failed"
    /\ run_no < MaxRuns
    /\ run_no' = run_no + 1
    /\ pc' = "start"
    /\ err' = "none"
    /\ calls' = <<>>
    /\ call_args' = <<>>
    /\ branch' = NoBranch
    /\ intent' = [intent EXCEPT !.branch = NoBranch]
    /\ terraform_files' = <<>>
    /\ terragrunt_files' = <<>>
    /\ discovered_module_sources' = <<>>
    /\ normalized_sources' = <<>>
    /\ module_source_dirs' = <<>>
    /\ matched_files' = <<>>
    /\ resource_related_files' = <<>>
    /\ module_files' = <<>>
    /\ candidate_files' = <<>>
    /\ tier' = 0
    /\ terraform_file_contents' = EmptyDict
    /\ payload' = "none"
    /\ files_obj' = <<>>
    /\ idx' = 1
    /\ changed_files' = <<>>
    /\ verdicts' = <<>>
    /\ written' = <<>>
    /\ diff_names' = {}
    /\ UNCHANGED <<rev, affected_resources, resource_type, runs, disk, committed>>

ReuseNext ==
    \/ Next
    \/ NextRun

ReuseSpec == ReuseInit /\ [][ReuseNext]_vars

\* ----------------------------------------------------------------------
\* Requests handled at the same time: each awaits its own graph run, and
\* the runs interleave at every await.
\* ----------------------------------------------------------------------
\* POST /run/{jira_id} up to the return of clone_repo: the run works in the
\* directory clone_repo names for the repository of its ticket.
StartRun(r) ==
    /\ runs[r].stage = "waiting"
    /\ \E repo \in Repos :
        runs' = [runs EXCEPT ![r] = [stage |-> "working", repo |-> repo, repo_path |-> RepoPath(repo)]]
    /\ UNCHANGED <<pc, err, rev, affected_resources, resource_type, intent, branch, run_no, git,
                   scanned, resolved, selected, generated, applied, diff_names>>

\* The run returns or raises.
FinishRun(r) ==
    /\ runs[r].stage = "working"
    /\ runs' = [runs EXCEPT ![r].stage = "finished"]
    /\ UNCHANGED <<pc, err, rev, affected_resources, resource_type, intent, branch, run_no, git,
                   scanned, resolved, selected, generated, applied, diff_names>>

IsolationInit ==
    /\ Init
    /\ disk = (<<"main.tf">> :> TfMain)
    /\ rev = FALSE
    /\ affected_resources = <<>>

IsolationNext ==
    \/ \E r \in 1..MaxConcurrent : StartRun(r)
    \/ \E r \in 1..MaxConcurrent : FinishRun(r)

IsolationSpec == IsolationInit /\ [][IsolationNext]_vars

\* ======================================================================
\* Properties of the write stage and of the pull-request steps
\* ======================================================================
Called(tool) == \E i \in DOMAIN calls : calls[i] = tool

\* The root-level files the validator is meant to guard.
SensitiveRootPaths == {<<"main.tf">>, <<"terraform.tf">>, <<"providers.tf">>}

\* C1: when the validator rejects a sensitive file of a ProposedChange, no
\* file of that ProposedChange has been written to disk in that run, whatever
\* the position of the rejected file in the mapping.
C1_FailClosedBatch == err = "StructuralLossRejected" => written = <<>>

\* C2: every overwrite of an existing root-level main.tf, terraform.tf or
\* providers.tf, however the key spells its path, follows a validator call on
\* (original content, proposed content) that returned no error.
C2_ValidatorSoleGate ==
    \A i \in DOMAIN written :
        (written[i].path \in SensitiveRootPaths /\ written[i].original # Absent) =>
            \E j \in DOMAIN verdicts :
                /\ verdicts[j].path = written[i].path
                /\ verdicts[j].original = written[i].original
                /\ verdicts[j].content = written[i].content
                /\ verdicts[j].errors = <<>>

C5_NoWriteBeforeFilesValidation ==
    (payload = "files" /\ err = "MalformedChangePayload") => written = <<>>

\* ======================================================================
\* Properties of the candidate selection
\* ======================================================================
\* The selection stage (lines 263-304) has run.
SelectionPassed == pc \notin {"start", "cloned", "branched", "scanned", "resolved"} /\ err # "DiscoveryEmpty"

Tier1Holds == matched_files # <<>>

Tier2Holds == affected_resources # <<>> /\ resource_related_files # <<>>

Tier3Holds == module_files # <<>>

\* The definition files that lie directly in a directory of a matched file.
SiblingsOfMatched ==
    {p \in Range(terraform_files) : \E q \in Range(matched_files) : Dirname(p) = Dirname(q)}

RootLevelDefinitionFiles == {p \in Range(terraform_files) : Len(p) = 1}

\* C6: the tier taken is the first one, in the order 1, 2, 3, 4, whose
\* condition holds, and the candidate set holds nothing but what that tier
\* contributes (tiers 2 and 4 contribute exactly relatedFiles, resp. all
\* definition files).
C6_ExactlyOneTier ==
    tier # 0 =>
        /\ tier \in 1..4
        /\ (tier = 1) <=> Tier1Holds
        /\ (tier = 2) <=> (~Tier1Holds /\ Tier2Holds)
        /\ (tier = 3) <=> (~Tier1Holds /\ ~Tier2Holds /\ Tier3Holds)
        /\ (tier = 4) <=> (~Tier1Holds /\ ~Tier2Holds /\ ~Tier3Holds)
        /\ tier = 1 => Range(candidate_files) \subseteq Range(matched_files) \cup SiblingsOfMatched
        /\ tier = 2 => candidate_files = resource_related_files
        /\ tier = 3 => Range(candidate_files) \subseteq Range(module_files) \cup RootLevelDefinitionFiles
        /\ tier = 4 => candidate_files = terraform_files

\* Tier 2 was taken although the module tier below it had files to offer.
C6_Witness == pc = "selected" /\ tier = 2 /\ module_files # <<>> /\ Len(terraform_files) >= 2

\* The definition files of the checkout whose text holds an identifier.
FilesNamingAffected ==
    {p \in DOMAIN disk : /\ IsDefinitionName(Basename(p))
                         /\ \E i \in DOMAIN affected_resources : Has(disk[p], affected_resources[i])}

\* C7: when a definition file holds an affected-resource identifier, the
\* run reaches the selection and the candidate set is exactly the definition
\* files holding an identifier plus the definition files of their
\* directories; no definition file of another directory is in it.
C7_Tier1MatchedPlusSiblings ==
    /\ (pc = "selected" /\ FilesNamingAffected # {}) =>
           /\ tier = 1
           /\ Range(candidate_files) =
                  {p \in DOMAIN disk : /\ IsDefinitionName(Basename(p))
                                       /\ \E q \in FilesNamingAffected : Dirname(p) = Dirname(q)}
    /\ (pc = "failed" /\ written = <<>> /\ FilesNamingAffected # {}) =>
           err \notin {"DiscoveryEmpty", "NoFilesMatchedAffectedResources", "NoCandidateFiles"}

\* Tier 1 took a matched file and its sibling and left out the definition
\* files of two other directories.
C7_Witness ==
    /\ pc = "selected"
    /\ tier = 1
    /\ Len(candidate_files) > Len(matched_files)
    /\ \E p \in Range(terraform_files) : p \notin Range(candidate_files) /\ Len(p) = 1
    /\ \E p \in Range(terraform_files) : p \notin Range(candidate_files) /\ Len(p) = 3

\* C8: the run fails with NoFilesMatchedAffectedResources exactly when
\* identifiers were supplied and matchedFiles, relatedFiles and the
\* module-fallback files are all empty; then no candidate set is built and
\* no generation, write or git step follows.
C8_NoFilesMatchedExactly ==
    /\ SelectionPassed =>
           ((err = "NoFilesMatchedAffectedResources") <=>
                (/\ affected_resources # <<>>
                 /\ matched_files = <<>>
                 /\ resource_related_files = <<>>
                 /\ module_files = <<>>))
    /\ ~SelectionPassed => err # "NoFilesMatchedAffectedResources"
    /\ err = "NoFilesMatchedAffectedResources" =>
           /\ pc = "failed"
           /\ tier = 0
           /\ candidate_files = <<>>
           /\ payload = "none"
           /\ written = <<>>
           /\ calls = <<"clone_repo", "create_branch">>

\* The run stopped because nothing of the repository matched the identifiers.
C8_Witness == err = "NoFilesMatchedAffectedResources" /\ terraform_files # <<>>

\* C9 as stated: a non-empty inventory (definition or manifest files) gives a
\* non-empty candidate set.
C9_NonEmptyUnlessInventoryEmpty ==
    (tier # 0 /\ (terraform_files # <<>> \/ terragrunt_files # <<>>)) => candidate_files # <<>>

\* C9 as amended: when a definition file was discovered the selected
\* candidate set is non-empty; an empty candidate set occurs only when the
\* inventory holds no definition file, and the run then fails with
\* NoCandidateFiles.
C9_NonEmptyUnlessNoDefinitionFile ==
    tier # 0 =>
        /\ terraform_files # <<>> => candidate_files # <<>>
        /\ candidate_files = <<>> =>
               /\ terraform_files = <<>>
               /\ pc = "failed"
               /\ err = "NoCandidateFiles"

\* A checkout of manifest files only: the selection ran and came out empty.
C9_Witness ==
    /\ tier # 0
    /\ candidate_files = <<>>
    /\ terragrunt_files # <<>>
    /\ err = "NoCandidateFiles"

\* C10: when matchedFiles is empty, tier 2 does not apply and the
\* module-fallback files are non-empty, tier 3 is taken and the candidate set
\* is exactly the module-fallback files plus the root-level definition files.
C10_Tier3ModulesPlusRoot ==
    (SelectionPassed /\ ~Tier1Holds /\ ~Tier2Holds /\ Tier3Holds) =>
        /\ tier = 3
        /\ Range(candidate_files) = Range(module_files) \cup RootLevelDefinitionFiles

\* Tier 3 added a root-level file to the module files.
C10_Witness ==
    /\ pc = "selected"
    /\ tier = 3
    /\ RootLevelDefinitionFiles # {}
    /\ ~(RootLevelDefinitionFiles \subseteq Range(module_files))

\* The *.tf files and the *.hcl files of the checkout, by their names.
DefinitionPathsOnDisk == {p \in DOMAIN disk : Basename(p) \in {"main.tf", "app.tf", "db.tf"}}

ManifestPathsOnDisk == {p \in DOMAIN disk : Basename(p) = "terragrunt.hcl"}

\* C11: without identifiers, and with nothing from the related-files and
\* module-fallback tiers, tier 4 is taken and the candidate list is the list
\* of definition files itself: the same paths, as many as the checkout holds.
C11_Tier4AllDefinitionFiles ==
    (SelectionPassed /\ affected_resources = <<>> /\ ~Tier2Holds /\ module_files = <<>>) =>
        /\ tier = 4
        /\ candidate_files = terraform_files
        /\ written = <<>> =>
               /\ Range(candidate_files) = DefinitionPathsOnDisk
               /\ Len(candidate_files) = Cardinality(DefinitionPathsOnDisk)

\* Tier 4 handed on a root-level file and a file of a sub-directory.
C11_Witness ==
    /\ pc = "selected"
    /\ tier = 4
    /\ affected_resources = <<>>
    /\ \E p, q \in Range(candidate_files) : Len(p) = 1 /\ Len(q) = 2

\* The resolution stage (lines 175-261) has run.
ResolutionPassed == pc \notin {"start", "cloned", "branched", "scanned"} /\ err # "DiscoveryEmpty"

ResourceSpecificModule == <<"modules", resource_type>>

\* The definition files below the resolved module source directories.
FilesOfResolvedModules ==
    {p \in DefinitionPathsOnDisk : \E i \in DOMAIN module_source_dirs : IsPrefix(module_source_dirs[i], p)}

\* C12 as stated: when modules/<resourceType>/ exists, moduleFiles holds only
\* definition files below it, also when module sources of the root files
\* resolved to other directories.
C12_ModuleFilesRestricted ==
    (ResolutionPassed /\ written = <<>> /\ IsDir(ResourceSpecificModule, disk)) =>
        \A p \in Range(module_files) : IsPrefix(ResourceSpecificModule, p)

\* C12 as amended: when modules/<resourceType>/ exists and the module sources
\* of the root files led to no definition file, moduleFiles is the set of
\* definition files below modules/<resourceType>/; when the resolved module
\* directories hold definition files, moduleFiles is the set of those files,
\* wherever they lie.
C12_ModuleFilesRestrictedAsFallback ==
    (ResolutionPassed /\ written = <<>>) =>
        /\ (FilesOfResolvedModules = {} /\ IsDir(ResourceSpecificModule, disk)) =>
               Range(module_files) = {p \in DefinitionPathsOnDisk : IsPrefix(ResourceSpecificModule, p)}
        /\ FilesOfResolvedModules # {} => Range(module_files) = FilesOfResolvedModules

\* The fallback kept the files of modules/<resourceType>/ and left out the
\* files of another module directory.
C12_Witness ==
    /\ pc = "resolved"
    /\ module_source_dirs = <<>>
    /\ module_files # <<>>
    /\ IsDir(ResourceSpecificModule, disk)
    /\ \E p \in DefinitionPathsOnDisk : IsPrefix(<<"modules">>, p) /\ p \notin Range(module_files)

\* C18: a checkout without definition and manifest file ends the run with
\* DiscoveryEmpty at the scan, before module resolution, selection,
\* generation and any write, and the condition is raised in no other case.
C18_DiscoveryEmptyExactly ==
    /\ (pc \notin {"start", "cloned", "branched"} /\ written = <<>>) =>
           ((err = "DiscoveryEmpty") <=> (DefinitionPathsOnDisk = {} /\ ManifestPathsOnDisk = {}))
    /\ pc \in {"start", "cloned", "branched"} => err # "DiscoveryEmpty"
    /\ err = "DiscoveryEmpty" =>
           /\ pc = "failed"
           /\ discovered_module_sources = <<>>
           /\ module_source_dirs = <<>>
           /\ module_files = <<>>
           /\ tier = 0
           /\ candidate_files = <<>>
           /\ payload = "none"
           /\ written = <<>>
           /\ calls = <<"clone_repo", "create_branch">>

\* A checkout that holds a file, but none the scan collects.
C18_Witness == err = "DiscoveryEmpty" /\ DOMAIN disk # {}

\* ======================================================================
\* Properties of the context cap
\* ======================================================================
\* The number of characters returned for the first n candidates.
RECURSIVE ReturnedChars(_)
ReturnedChars(n) ==
    IF n = 0 THEN 0
    ELSE (IF candidate_files[n] \in DOMAIN terraform_file_contents
          THEN Chars(terraform_file_contents[candidate_files[n]]) ELSE 0) + ReturnedChars(n - 1)

RECURSIVE CharsOnDisk(_)
CharsOnDisk(n) == IF n = 0 THEN 0 ELSE Chars(disk[candidate_files[n]]) + CharsOnDisk(n - 1)

IsFillerRun(text) == \A i \in DOMAIN text : \E j \in DOMAIN FillerTokens : text[i] = FillerTokens[j]

\* `a` is the text of the first characters of `b`.
RECURSIVE IsTextPrefix(_, _)
IsTextPrefix(a, b) ==
    IF a = <<>> THEN TRUE
    ELSE IF b = <<>> THEN FALSE
    ELSE IF Head(a) = Head(b) THEN IsTextPrefix(Tail(a), Tail(b))
    ELSE IsFillerRun(a) /\ IsFillerRun(<<Head(b)>>) /\ Chars(a) <= Width(Head(b))

\* C13: candidateFileContents has at most 50 entries, and the lengths of
\* its contents add up to at most 200,000 characters.
C13_DownstreamCap ==
    /\ Cardinality(DOMAIN terraform_file_contents) <= 50
    /\ DOMAIN terraform_file_contents \subseteq Range(candidate_files)
    /\ ReturnedChars(Len(candidate_files)) <= 200000

\* Of 51 candidates, whose second alone is as long as the budget, the first
\* two were returned and they use the budget to its last character.
C13_Witness ==
    /\ pc = "context"
    /\ Len(candidate_files) = 51
    /\ CharsOnDisk(Len(candidate_files)) > 200000
    /\ Cardinality(DOMAIN terraform_file_contents) = 2
    /\ ReturnedChars(Len(candidate_files)) = 200000

\* C14: a candidate whose turn comes with budget left and whose content is
\* longer than that budget is returned as the prefix of exactly the budget's
\* length, and no candidate after it is returned.
C14_TruncatedToRemainingBudget ==
    pc = "context" =>
        \A i \in 1..Len(candidate_files) :
            LET remaining == 200000 - ReturnedChars(i - 1)
                content == disk[candidate_files[i]]
            IN  (/\ i <= 50
                 /\ \A j \in 1..i - 1 : candidate_files[j] \in DOMAIN terraform_file_contents
                 /\ remaining > 0
                 /\ Chars(content) > remaining) =>
                    /\ candidate_files[i] \in DOMAIN terraform_file_contents
                    /\ Chars(terraform_file_contents[candidate_files[i]]) = remaining
                    /\ IsTextPrefix(terraform_file_contents[candidate_files[i]], content)
                    /\ \A j \in i + 1..Len(candidate_files) :
                           candidate_files[j] \notin DOMAIN terraform_file_contents

\* The second of three candidates was cut to the 80,000 characters left
\* after the first, and the third was not returned.
C14_Witness ==
    /\ pc = "context"
    /\ Len(candidate_files) = 3
    /\ Chars(disk[candidate_files[1]]) = 120000
    /\ Chars(disk[candidate_files[2]]) = 120000
    /\ Chars(terraform_file_contents[candidate_files[2]]) = 80000
    /\ candidate_files[3] \notin DOMAIN terraform_file_contents

\* ======================================================================
\* Properties of the validator
\* ======================================================================
\* proposed length / original length is below 0.5
RatioBelowHalf(original, content) == Chars(original) > 0 /\ 2 * Chars(content) < Chars(original)

\* C15: a proposal shorter than half the original is rejected with a
\* size-reduction reason whatever the other checks say, and a proposal of at
\* least half the original's length gets no size-reduction reason.
C15_SizeCheck ==
    \A i \in DOMAIN verdicts :
        LET v == verdicts[i]
        IN  /\ RatioBelowHalf(v.original, v.content) =>
                   /\ Has(v.errors, FileSizeReduced)
                   /\ pc = "failed" /\ err = "StructuralLossRejected"
            /\ 2 * Chars(v.content) >= Chars(v.original) => ~Has(v.errors, FileSizeReduced)

ModuleDecrease(original, content) ==
    ModuleCount(original) > 1 /\ ModuleCount(content) < ModuleCount(original)

IsModuleReason(reason) ==
    \E n \in 1..MaxModules + 1 : reason = "Removed " \o ToString(n) \o " module block(s)"

\* C16: an original of more than one module block and a proposal of fewer
\* give a rejection whose reasons name the number of removed module blocks;
\* an original of at most one module block gives no such reason.
C16_ModuleCountCheck ==
    \A i \in DOMAIN verdicts :
        LET v == verdicts[i]
            removed == ModuleCount(v.original) - ModuleCount(v.content)
        IN  /\ ModuleDecrease(v.original, v.content) =>
                   /\ Has(v.errors, "Removed " \o ToString(removed) \o " module block(s)")
                   /\ pc = "failed" /\ err = "StructuralLossRejected"
            /\ ModuleCount(v.original) <= 1 => \A j \in DOMAIN v.errors : ~IsModuleReason(v.errors[j])

\* A proposal with one of the two module blocks of the original, and nothing
\* else lost, was rejected for that reason alone.
C16_Witness ==
    /\ pc = "failed"
    /\ \E i \in DOMAIN verdicts :
           /\ ModuleCount(verdicts[i].original) = 2
           /\ ModuleCount(verdicts[i].content) = 1
           /\ verdicts[i].errors = <<"Removed 1 module block(s)">>

Disappeared(original, content, tok) == Has(original, tok) /\ ~Has(content, tok)

\* The reasons of the checks that are violated, check by check.
ExpectedReasons(original, content) ==
    {"Removed " \o ToString(ModuleCount(original) - ModuleCount(content)) \o " module block(s)" :
        x \in {y \in {1} : ModuleDecrease(original, content)}}
    \cup {"Removed terraform backend configuration" :
        x \in {y \in {1} : Disappeared(original, content, "terraform {")}}
    \cup {"Removed variable definitions" : x \in {y \in {1} : Disappeared(original, content, "variable \"")}}
    \cup {"Removed output definitions" : x \in {y \in {1} : Disappeared(original, content, "output \"")}}
    \cup {"Removed resource definitions" : x \in {y \in {1} : Disappeared(original, content, "resource \"")}}
    \cup {FileSizeReduced : x \in {y \in {1} : RatioBelowHalf(original, content)}}

\* C17: the proposal for a sensitive file is rejected exactly when one of
\* the six checks is violated, and the reasons are those of the violated
\* checks, one each.
C17_VerdictExact ==
    \A i \in DOMAIN verdicts :
        LET v == verdicts[i]
            expected == ExpectedReasons(v.original, v.content)
        IN  /\ Range(v.errors) = expected
            /\ Len(v.errors) = Cardinality(expected)
            /\ i = Len(verdicts) =>
                   (expected # {} <=> (pc = "failed" /\ err = "StructuralLossRejected"))

\* ======================================================================
\* Properties of the module resolver
\* ======================================================================
NoDirectory == <<"<none>">>

\* The directory the source of each module block stands for: the source with
\* ${path.module} and ${path.root} read as "." and trimmed, when it begins
\* with ./, ../ or modules/, taken from the repository root.
ExpectedDirectory(tok) ==
    CASE tok = "module_local" -> <<"modules", "s3">>
      [] tok = "module_path_module" -> <<"modules", "s3">>
      [] tok = "module_kms_v1" -> <<"modules", "kms", "v1">>
      [] tok = "module_plain" -> <<"modules", "kms">>
      [] tok = "module_v1" -> <<"modules", "kms", "v1">>
      [] tok = "module_here" -> <<>>
      [] tok = "module_spaced" -> <<"modules", "s3">>
      [] tok = "module_parent" -> <<"..", "shared">>
      [] tok = "module_root" -> <<"modules", "kms">>
      [] OTHER -> NoDirectory

\* The module blocks of the root-level definition files.
RootModuleTokens ==
    UNION {Range(disk[p]) : p \in {q \in DefinitionPathsOnDisk : Len(q) = 1}} \cap ModuleTokens

\* C19: a declared source contributes a directory to the resolved list
\* exactly when its normalized form begins with ./, ../ or modules/ and the
\* directory exists; "${path.module}/modules/kms/v1" becomes
\* "./modules/kms/v1"; every other source is dropped and raises no error.
C19_ModuleSourceResolution ==
    (ResolutionPassed /\ written = <<>>) =>
        /\ Range(module_source_dirs) =
               {ExpectedDirectory(tok) : tok \in {t \in RootModuleTokens :
                    /\ ExpectedDirectory(t) # NoDirectory
                    /\ \E p \in DOMAIN disk : Len(p) > Len(ExpectedDirectory(t))
                                              /\ IsPrefix(ExpectedDirectory(t), p)}}
        /\ \A i \in DOMAIN discovered_module_sources :
               discovered_module_sources[i] = SourceOf("module_kms_v1") =>
                   normalized_sources[i] = <<".", "/", "modules", "/", "kms", "/", "v1">>
        /\ pc = "resolved" => err = "none"

\* C20: normalizing an already normalized source yields the same text, for
\* every source a module block can declare.
C20_NormalizationIdempotent ==
    \A i \in DOMAIN normalized_sources :
        NormalizeSource(normalized_sources[i]) = normalized_sources[i]

\* The source " ./modules/s3 " was extracted, normalized to "./modules/s3",
\* and a second normalization leaves it as it is.
C20_Witness ==
    /\ pc = "resolved"
    /\ \E i \in DOMAIN normalized_sources :
           /\ discovered_module_sources[i] = Strip(SourceOf("module_spaced"))
           /\ normalized_sources[i] = <<".", "/", "modules", "/", "s3">>
           /\ NormalizeSource(normalized_sources[i]) = normalized_sources[i]

\* ======================================================================
\* Properties of the file inventory
\* ======================================================================
\* C21: no path belongs to two of definitionFiles, manifestFiles and
\* moduleFiles.
C21_InventoryDisjoint ==
    /\ Range(terraform_files) \cap Range(terragrunt_files) = {}
    /\ Range(terraform_files) \cap Range(module_files) = {}
    /\ Range(terragrunt_files) \cap Range(module_files) = {}

\* C21, amended: no path is both a definition file and a manifest file or
\* both a module file and a manifest file, and every module file below the
\* repository root is one of the definition files.
C21_ModuleFilesAmongDefinitionFiles ==
    /\ Range(terraform_files) \cap Range(terragrunt_files) = {}
    /\ Range(terragrunt_files) \cap Range(module_files) = {}
    /\ \A p \in Range(module_files) : p[1] # ".." => p \in Range(terraform_files)

\* A scan found definition files and a manifest, and the module files found
\* afterwards are among the definition files.
C21_Witness ==
    /\ pc = "resolved"
    /\ terragrunt_files # <<>>
    /\ module_files # <<>>
    /\ Range(module_files) \subseteq Range(terraform_files)

\* The place of a name in the lexical order of names.
NameIndex(n) == CHOOSE i \in DOMAIN NameOrder : NameOrder[i] = n

\* p comes before q in lexical path order.
RECURSIVE PathBefore(_, _)
PathBefore(p, q) ==
    IF q = <<>> THEN FALSE
    ELSE IF p = <<>> THEN TRUE
    ELSE IF Head(p) = Head(q) THEN PathBefore(Tail(p), Tail(q))
    ELSE NameIndex(Head(p)) < NameIndex(Head(q))

InLexicalOrder(files) == \A i, j \in DOMAIN files : i < j => PathBefore(files[i], files[j])

\* C22: the scan classifies every file below the root, and lists the
\* definition files and the manifest files in lexical path order.
C22_ScanTotalAndLexical ==
    pc = "scanned" =>
        /\ Range(terraform_files) = DefinitionPathsOnDisk
        /\ Range(terragrunt_files) = ManifestPathsOnDisk
        /\ InLexicalOrder(terraform_files)
        /\ InLexicalOrder(terragrunt_files)

\* ----------------------------------------------------------------------
\* Reflexivity of the validator, and the diff check after the writes
\* ----------------------------------------------------------------------
\* C27: a proposed replacement identical to the original content of a
\* sensitive file, the empty file included, passes the validator with an
\* empty reason list.
C27_ValidatorReflexive ==
    \A i \in DOMAIN verdicts :
        verdicts[i].content = verdicts[i].original => verdicts[i].errors = <<>>

\* A write that changed the checkout: the file did not exist before, or its
\* content differs from what was on disk.
ChangedTheCheckout(w) == w.original = Absent \/ w.content # w.original

\* C29: a run whose write stage changed the checkout in any way does not
\* end with the empty-diff error.
C29_ChangeMeansNoEmptyDiff ==
    (\E i \in DOMAIN written : ChangedTheCheckout(written[i])) => err # "EmptyDiff"

\* ======================================================================
\* Properties of the candidate list
\* ======================================================================
NoDuplicates(files) == \A i, j \in DOMAIN files : files[i] = files[j] => i = j

\* C28: the candidate list handed to the context step holds no path twice,
\* in any tier, also when resolved module directories lie inside one
\* another or a module source resolves to the repository root.
C28_CandidatesDistinct == NoDuplicates(candidate_files)

\* ======================================================================
\* Properties of the classification, of the written paths and of the runs
\* ======================================================================
\* C24: the classification never fails the run: whatever the intent holds
\* and whatever the classification call does, a supported type is returned
\* and the template lookup that follows succeeds.
C24_ClassificationNeverFails ==
    pc # "classify" =>
        /\ err \notin {"TypeError", "NoPromptTemplate"}
        /\ resource_type \in ResourceTypes

\* A path below repo_path.
InsideCheckout(p) == p # <<>> /\ p[1] \notin {"..", "/"}

\* C25: every file the write stage writes lies inside the checkout of the
\* run, whatever the key of the `files` mapping is.
C25_WritesInsideCheckout ==
    \A i \in DOMAIN written : InsideCheckout(written[i].path)

WrittenPaths == {written[i].path : i \in DOMAIN written}

\* The paths whose committed text differs between two trees.
TreeChanges(old, new) ==
    {p \in DOMAIN old \cup DOMAIN new :
        p \notin DOMAIN old \/ p \notin DOMAIN new \/ old[p] # new[p]}

\* C26: in every run of a sequence of runs on one repository, the diff and
\* the commit hold only files the write stage of that run wrote.
C26_CommitIsOwnWrites ==
    [][(pc = "diffed" /\ pc' = "committed") =>
           /\ diff_names \subseteq WrittenPaths
           /\ TreeChanges(committed, committed') \subseteq WrittenPaths]_vars

\* C23: no two runs in progress work in the same checkout directory.
C23_RunIsolation ==
    \A r1, r2 \in DOMAIN runs :
        (r1 # r2 /\ runs[r1].stage = "working" /\ runs[r2].stage = "working")
            => runs[r1].repo_path # runs[r2].repo_path

\* ======================================================================
\* Properties of the order of the steps
\* ======================================================================
ToolOrder == <<"clone_repo", "create_branch", "commit_changes", "push_branch", "create_pull_request">>

\* The tools were called in their order, each at most once; the writes come
\* after create_branch, and commit_changes after the last write and after a
\* diff check that found a difference.
CallsInOrder ==
    /\ Len(calls) <= Len(ToolOrder) /\ calls = SubSeq(ToolOrder, 1, Len(calls))
    /\ written # <<>> => Len(calls) >= 2
    /\ Len(calls) > 2 => idx > Len(files_obj) /\ diff_names # {}
    /\ pc = "done" => calls = ToolOrder

\* The branch handed to create_branch, push_branch and create_pull_request
\* is the one stored in the intent.
OneBranch ==
    /\ Len(calls) = Len(call_args)
    /\ \A i \in DOMAIN calls :
           calls[i] \in {"create_branch", "push_branch", "create_pull_request"} =>
               call_args[i] = intent.branch /\ call_args[i] # NoBranch

\* A write happens between create_branch and the diff check; the diff check
\* happens after the last write and before commit_changes.
WritesThenDiff ==
    /\ written' # written => Len(calls) = 2 /\ diff_names = {} /\ pc' # "diffed"
    /\ diff_names' # diff_names => Len(calls) = 2 /\ idx > Len(files_obj) /\ written' = written

\* C30: in a run the steps come in the order clone_repo, create_branch, the
\* file writes, the diff check, commit_changes, push_branch and
\* create_pull_request, each tool at most once, and the branch checked out
\* before the writes is the one pushed, used as pull-request head and
\* stored in intent["branch"].
C30_StepOrder == [](CallsInOrder /\ OneBranch) /\ [][WritesThenDiff]_vars

\* A run that ended with a pull request: five tool calls, a write, and the
\* branch "2026-01-05-101500-SEC-1" in all three places.
C30_Witness ==
    /\ pc = "done"
    /\ calls = ToolOrder
    /\ written # <<>>
    /\ intent.branch = "2026-01-05-101500-SEC-1"
    /\ call_args[2] = intent.branch /\ call_args[4] = intent.branch /\ call_args[5] = intent.branch


====
